---- MODULE Spec2Model ----
(***************************************************************************)
(* Model of the command-line scripts under scripts/.  Every behaviour is   *)
(* one run of one script: Init picks the script and its command-line       *)
(* arguments, the actions are the statements of that script's main().      *)
(* External effects (a child process's return code, an import that fails,  *)
(* a file operation that raises) are nondeterministic choices.             *)
(***************************************************************************)
EXTENDS Integers, Naturals, Sequences, FiniteSets, TLC

VARIABLES
  script,    \* the script this run executes
  args,      \* its parsed command line
  pc,        \* the statement main() is at
  step,      \* index of the current call in a sequence of like calls
  ok,        \* run_all_visualizations: main()'s ok
  running,   \* child scripts started and not yet terminated
  started,   \* child scripts in the order subprocess.run started them
  invoked,   \* terminated children with their return codes, in order
  exitcode,  \* <<>> while the script runs, <<n>> once it exited with n
  out,       \* messages printed to stdout
  err,       \* messages printed to stderr
  fs,        \* paths that exist
  existing,  \* paths that existed when the run began
  written,   \* files this run created or rewrote
  stages,    \* pipeline stages in the order the run entered them
  loaded,    \* the load step has succeeded
  df,        \* 3d-draft: where main()'s df comes from
  arr,       \* row loops: the dates of the rows, in row order
  window_days, \* rolling window: the window length in days
  left,      \* rolling window: index of the first row of the window
  right,     \* row loops: index of the current row
  window,    \* rolling window: the indices of the rows of the window
  emitted,   \* row loops: the rows emitted so far
  ts,        \* heatmap: the hourly timestamps of the series (UTC hours)
  tz_shift,  \* heatmap: hours the time zone of the bins is ahead of UTC
  local,     \* heatmap: day_name and hour of every row
  pivot      \* heatmap: the table (row labels, column labels, filled cells)

runnerVars == <<step, ok, running, started, invoked>>
fileVars == <<fs, existing, written, stages, loaded, df>>
rollVars == <<arr, window_days, left, right, window, emitted>>
heatVars == <<ts, tz_shift, local, pivot>>
vars == <<script, args, pc, step, ok, running, started, invoked, exitcode, out,
          err, fs, existing, written, stages, loaded, df,
          arr, window_days, left, right, window, emitted,
          ts, tz_shift, local, pivot>>

\* ---------------------------------------------------------------- bounds
\* child return codes are drawn from 0..MaxReturnCode
MaxReturnCode == 1

\* at most MaxExisting files of the output directory exist when a run begins
MaxExisting == 2

\* the rolling window runs over at most MaxRows rows with dates in
\* 0..MaxDate and a window of 1..MaxWindowDays days
MaxRows == 4

MaxDate == 3

MaxWindowDays == 2

\* the sequences over S of length n
SeqsOfLen(S, n) == [1..n -> S]

\* the date columns of a frame sorted by date
SortedDates ==
  {a \in UNION {SeqsOfLen(0..MaxDate, n) : n \in 0..MaxRows} :
     \A i \in 1..(Len(a) - 1) : a[i] <= a[i + 1]}

\* the weekend-gap loops run over at most MaxGapRows rows with dates in
\* 0..MaxGapDate (day 0 is a Monday)
MaxGapRows == 4

MaxGapDate == 7

\* the date columns of a daily price frame sorted by date
GapDates ==
  {a \in UNION {SeqsOfLen(0..MaxGapDate, n) : n \in 0..MaxGapRows} :
     \A i \in 1..(Len(a) - 1) : a[i] <= a[i + 1]}

\* the heatmap is built from an hourly series of 1..MaxSeriesHours hours
\* that begins 0..MaxStartHour hours after a Monday 00:00 UTC, binned in a
\* time zone 0..MaxTzShift hours ahead of UTC
MaxSeriesHours == 25

MaxStartHour == 30

MaxTzShift == 1

ReturnCodes == 0..MaxReturnCode

\* ------------------------------------------------------------- arguments
DefaultArgs ==
  [visualize_only |-> FALSE, project |-> FALSE, source |-> "blockchain",
   csv |-> FALSE, overwrite |-> FALSE, report_only |-> FALSE,
   dash_export |-> FALSE]

\* ------------------------------------------- run_all_visualizations.py
\* the seven subprocess calls of main(), in program order; pull marks the
\* calls guarded by "if not args.visualize_only"
RunAllSteps ==
  << [name |-> "pull_large_transaction_timing",      pull |-> TRUE],
     [name |-> "visualize_large_transaction_timing", pull |-> FALSE],
     [name |-> "pull_block_time_variance",           pull |-> TRUE],
     [name |-> "visualize_block_time_variance",      pull |-> FALSE],
     [name |-> "visualize_weekend_gap_analysis",     pull |-> FALSE],
     [name |-> "pull_fee_overpayment_patterns",      pull |-> TRUE],
     [name |-> "visualize_fee_overpayment_patterns", pull |-> FALSE] >>

NumRunAllSteps == Len(RunAllSteps)

\* variant: the pull calls without their visualize_only guard
PullsNotSkipped(i, visualize_only) == TRUE

\* "if not args.visualize_only:" in front of every pull call
StepSelected(i, visualize_only) ==
  ~(RunAllSteps[i].pull /\ visualize_only)

\* the first call of main() after call i (NumRunAllSteps + 1: none left)
RECURSIVE NextStep(_, _)
NextStep(i, visualize_only) ==
  IF i + 1 > NumRunAllSteps THEN NumRunAllSteps + 1
  ELSE IF StepSelected(i + 1, visualize_only) THEN i + 1
  ELSE NextStep(i + 1, visualize_only)

\* variant: run() that reports success whatever the return code
run_always_true(rc, ignore_errors) == TRUE

\* run(cmd, title, ignore_errors): the value returned for return code rc
run(rc, ignore_errors) ==
  IF rc # 0 THEN ignore_errors ELSE TRUE

\* variant: a child started without waiting for it (subprocess.Popen)
subprocess_Popen(st, nxt) == [pc |-> IF nxt = 0 THEN "return" ELSE "call",
                              step |-> IF nxt = 0 THEN st ELSE nxt]

\* subprocess.run(cmd, capture_output=True, text=True) blocks the caller at
\* call st until the child has terminated (nxt: the call that follows, 0
\* when none does)
subprocess_run(st, nxt) == [pc |-> "wait", step |-> st]

RunAllFollowing(st, visualize_only) ==
  IF NextStep(st, visualize_only) > NumRunAllSteps THEN 0
  ELSE NextStep(st, visualize_only)

\* run(): subprocess.run starts the child of the current call
RunAllCall ==
  /\ script = "run_all_visualizations"
  /\ pc = "call"
  /\ LET c == RunAllSteps[step].name
         s == subprocess_run(step, RunAllFollowing(step, args.visualize_only))
     IN /\ running' = running \cup {c}
        /\ started' = Append(started, c)
        /\ pc' = s.pc
        /\ step' = s.step
  /\ UNCHANGED <<rollVars, heatVars, script, args, ok, invoked, exitcode, out, err, fileVars>>

\* run(): the child terminates with return code rc, run() returns and
\* main() does "ok &= run(...)"
RunAllChildExit ==
  /\ script = "run_all_visualizations"
  /\ \E c \in running, rc \in ReturnCodes :
       /\ running' = running \ {c}
       /\ IF pc = "wait"
          THEN /\ invoked' = Append(invoked, [name |-> c, rc |-> rc])
               /\ ok' = (ok /\ run(rc, FALSE))
               /\ step' = NextStep(step, args.visualize_only)
               /\ pc' = IF step' > NumRunAllSteps THEN "return" ELSE "call"
          ELSE UNCHANGED <<invoked, ok, step, pc>>
  /\ UNCHANGED <<rollVars, heatVars, script, args, started, exitcode, out, err, fileVars>>

\* print("DONE" if ok else "Completed with errors"); return 0 if ok else 1
RunAllReturn ==
  /\ script = "run_all_visualizations"
  /\ pc = "return"
  /\ out' = out \cup {IF ok THEN "DONE" ELSE "Completed with errors"}
  /\ exitcode' = IF ok THEN <<0>> ELSE <<1>>
  /\ pc' = "exited"
  /\ UNCHANGED <<rollVars, heatVars, script, args, runnerVars, err, fileVars>>

\* ---------------------------- run_large_transaction_timing_pipeline.py
PipelineSteps ==
  << "pull_large_transaction_timing", "visualize_large_transaction_timing" >>

\* variant: run_command() that reports success whatever the return code
run_command_always_true(rc) == TRUE

\* run_command(cmd, description): the value returned for return code rc
run_command(rc) == rc = 0

\* run_command(): subprocess.run starts the child of the current step
PipelineCall ==
  /\ script = "run_large_transaction_timing_pipeline"
  /\ pc = "call"
  /\ LET c == PipelineSteps[step]
         s == subprocess_run(step, IF step < Len(PipelineSteps) THEN step + 1 ELSE 0)
     IN /\ running' = running \cup {c}
        /\ started' = Append(started, c)
        /\ pc' = s.pc
        /\ step' = s.step
  /\ UNCHANGED <<rollVars, heatVars, script, args, ok, invoked, exitcode, out, err, fileVars>>

\* run_command(): the child terminates; "if not run_command(...): return 1"
PipelineChildExit ==
  /\ script = "run_large_transaction_timing_pipeline"
  /\ \E c \in running, rc \in ReturnCodes :
       /\ running' = running \ {c}
       /\ IF pc = "wait"
          THEN /\ invoked' = Append(invoked, [name |-> c, rc |-> rc])
               /\ IF ~run_command(rc)
                  THEN /\ exitcode' = <<1>>
                       /\ pc' = "exited"
                       /\ step' = step
                  ELSE /\ exitcode' = exitcode
                       /\ pc' = IF step < Len(PipelineSteps) THEN "call" ELSE "return"
                       /\ step' = IF step < Len(PipelineSteps) THEN step + 1 ELSE step
          ELSE UNCHANGED <<invoked, exitcode, pc, step>>
  /\ UNCHANGED <<rollVars, heatVars, script, args, ok, started, out, err, fileVars>>

\* print("pipeline completed successfully"); return 0
PipelineReturn ==
  /\ script = "run_large_transaction_timing_pipeline"
  /\ pc = "return"
  /\ out' = out \cup {"pipeline completed successfully"}
  /\ exitcode' = <<0>>
  /\ pc' = "exited"
  /\ UNCHANGED <<rollVars, heatVars, script, args, runnerVars, err, fileVars>>

\* ------------------------------------------------- stages and file writes
\* the run enters stage s (a run of statements of one stage is one entry)
Enter(st, s) ==
  IF st # <<>> /\ st[Len(st)] = s THEN st ELSE Append(st, s)

RECURSIVE EnterAll(_, _)
EnterAll(st, ss) ==
  IF ss = <<>> THEN st ELSE EnterAll(Enter(st, Head(ss)), Tail(ss))

\* variant: a load whose exception is swallowed
after_load_swallowed(succeeded, nextpc) == nextpc

\* a load statement (read_text, read_gbq, read_csv, requests.get) that
\* raises is not caught: the script ends with a traceback
after_load(succeeded, nextpc) ==
  IF succeeded THEN nextpc ELSE "crash"

\* an uncaught exception: traceback on stderr, exit status 1
Crash ==
  /\ pc' = "exited"
  /\ exitcode' = <<1>>
  /\ err' = err \cup {"Traceback"}

\* --------------------------------------------------------- run_query.py
\* sql = Path(args.sql).read_text()
RunQueryReadSql ==
  /\ script = "run_query"
  /\ pc = "read_sql"
  /\ \E succeeded \in BOOLEAN :
       LET p == after_load(succeeded, "read_gbq")
       IN IF p = "crash" THEN Crash
          ELSE pc' = p /\ UNCHANGED <<exitcode, err>>
  /\ stages' = Enter(stages, "load")
  /\ UNCHANGED <<rollVars, heatVars, script, args, runnerVars, out, fs, existing, written, loaded, df>>

\* import pandas_gbq; df = pandas_gbq.read_gbq(sql, ...)
RunQueryReadGbq ==
  /\ script = "run_query"
  /\ pc = "read_gbq"
  /\ \E succeeded \in BOOLEAN :
       LET p == after_load(succeeded, "write")
       IN /\ IF p = "crash" THEN Crash
             ELSE pc' = p /\ UNCHANGED <<exitcode, err>>
          /\ loaded' = succeeded
  /\ stages' = Enter(stages, "load")
  /\ out' = out \cup {"Running query"}
  /\ UNCHANGED <<rollVars, heatVars, script, args, runnerVars, fs, existing, written, df>>

\* out_path.parent.mkdir(parents=True, exist_ok=True); df.to_parquet(out_path)
RunQueryWrite ==
  /\ script = "run_query"
  /\ pc = "write"
  /\ stages' = Enter(stages, "write")
  /\ \E succeeded \in BOOLEAN :
       IF succeeded
       THEN /\ fs' = fs \cup {"out_dir", "out.parquet"}
            /\ written' = written \cup {"out.parquet"}
            /\ out' = out \cup {"Writing rows", "Done."}
            /\ pc' = "exited"
            /\ exitcode' = <<0>>
            /\ err' = err
       ELSE /\ Crash
            /\ fs' = fs \cup {"out_dir"}
            /\ out' = out \cup {"Writing rows"}
            /\ written' = written
  /\ UNCHANGED <<rollVars, heatVars, script, args, runnerVars, existing, loaded, df>>

\* ---------------------------------------------------- mempool_heatmap.py
MempoolFiles == {"mempool_data.csv", "mempool_heatmap.png", "mempool_heatmap.html"}

\* variant: main() without the --csv check
csv_never_required(a) == FALSE

\* main(): "else: if not args.csv:" under "if args.source == 'blockchain'"
csv_required_error(a) == a.source = "csv" /\ ~a.csv

\* print("Error: --csv is required when --source=csv", file=sys.stderr);
\* sys.exit(2)
MempoolMissingCsv ==
  /\ script = "mempool_heatmap"
  /\ pc = "load"
  /\ csv_required_error(args)
  /\ err' = err \cup {"Error: --csv is required when --source=csv"}
  /\ exitcode' = <<2>>
  /\ pc' = "exited"
  /\ UNCHANGED <<rollVars, heatVars, script, args, runnerVars, out, fileVars>>

\* df = fetch_blockchain_com_1y_hourly()  or  df = read_csv_series(args.csv)
MempoolLoad ==
  /\ script = "mempool_heatmap"
  /\ pc = "load"
  /\ ~csv_required_error(args)
  /\ \E succeeded \in BOOLEAN :
       LET p == after_load(succeeded, "save_raw")
       IN /\ IF p = "crash" THEN Crash
             ELSE pc' = p /\ UNCHANGED <<exitcode, err>>
          /\ loaded' = succeeded
  /\ stages' = Enter(stages, "load")
  /\ UNCHANGED <<rollVars, heatVars, script, args, runnerVars, out, fs, existing, written, df>>

\* os.makedirs(dirname(args.save_raw)); df.to_csv(args.save_raw)
MempoolSaveRaw ==
  /\ script = "mempool_heatmap"
  /\ pc = "save_raw"
  /\ stages' = Enter(stages, "write")
  /\ \E succeeded \in BOOLEAN :
       IF succeeded
       THEN /\ fs' = fs \cup {"data/raw", "mempool_data.csv"}
            /\ written' = written \cup {"mempool_data.csv"}
            /\ out' = out \cup {"Saved raw data"}
            /\ pc' = "pivot"
            /\ UNCHANGED <<exitcode, err>>
       ELSE /\ Crash
            /\ UNCHANGED <<fs, written, out>>
  /\ UNCHANGED <<rollVars, heatVars, script, args, runnerVars, existing, loaded, df>>

\* pivot = build_hour_day_heatmap(df, tz_name=args.tz)
MempoolBuildPivot ==
  /\ script = "mempool_heatmap"
  /\ pc = "pivot"
  /\ stages' = Enter(stages, "transform")
  /\ pc' = "png"
  /\ UNCHANGED <<rollVars, heatVars, script, args, runnerVars, exitcode, out, err, fs, existing,
                 written, loaded, df>>

\* os.makedirs(dirname(args.out)); plot_heatmap: imshow ... plt.savefig(png_path)
MempoolPlotPng ==
  /\ script = "mempool_heatmap"
  /\ pc = "png"
  /\ \E succeeded \in BOOLEAN :
       IF succeeded
       THEN /\ stages' = EnterAll(stages, <<"plot", "write">>)
            /\ fs' = fs \cup {"data/figs", "mempool_heatmap.png"}
            /\ written' = written \cup {"mempool_heatmap.png"}
            /\ out' = out \cup {"Saved PNG heatmap"}
            /\ pc' = "html"
            /\ UNCHANGED <<exitcode, err>>
       ELSE /\ Crash
            /\ stages' = Enter(stages, "plot")
            /\ fs' = fs \cup {"data/figs"}
            /\ UNCHANGED <<written, out>>
  /\ UNCHANGED <<rollVars, heatVars, script, args, runnerVars, existing, loaded, df>>

\* plot_heatmap: go.Figure(go.Heatmap(...)) ... fig.write_html(html_path)
MempoolPlotHtml ==
  /\ script = "mempool_heatmap"
  /\ pc = "html"
  /\ \E succeeded \in BOOLEAN :
       IF succeeded
       THEN /\ stages' = EnterAll(stages, <<"plot", "write">>)
            /\ fs' = fs \cup {"mempool_heatmap.html"}
            /\ written' = written \cup {"mempool_heatmap.html"}
            /\ out' = out \cup {"Saved HTML heatmap"}
            /\ pc' = "exited"
            /\ exitcode' = <<0>>
            /\ err' = err
       ELSE /\ Crash
            /\ stages' = Enter(stages, "plot")
            /\ UNCHANGED <<fs, written, out>>
  /\ UNCHANGED <<rollVars, heatVars, script, args, runnerVars, existing, loaded, df>>

\* ------------------------------------------------------- btc-temporal.py
\* (line 540 of the file repeats the head of the "if" of line 541 without a
\* body, so the file as it stands is rejected by the compiler; the model
\* follows the statements of lines 49 and 524-552 with line 541 as the guard
\* of the dash export)

\* the paths export_figures_and_stats hands to save_html, in call order
BtcFigureFiles ==
  << "btc_violin_by_day.html", "daily_monday_effect.html",
     "btc_ridgeline_weekday_returns.html", "btc_heatmap_year_weekday.html",
     "btc_weekly_cycle.html", "btc_dist_overlay_monday.html",
     "one_figure_to_rule_them_all_interactive.html", "btc_rolling_tstat.html" >>

NumBtcFigures == Len(BtcFigureFiles)

\* every HTML file the script can write into the output directory
BtcHtmlFiles ==
  {BtcFigureFiles[i] : i \in 1..NumBtcFigures}
    \cup {"btc_temporal_report.html", "btc_temporal_dashboard.html"}

\* what is computed before the i-th save_html call: a new figure for every
\* call but the second (the alias of the violin), rolling_tstat before the
\* last figure
BtcStagesBefore(i) ==
  IF i = 2 THEN <<>>
  ELSE IF i = NumBtcFigures THEN <<"stats", "plot">>
  ELSE <<"plot">>

\* save_html(fig, path): "if (not overwrite) and os.path.exists(path): return"
save_html_writes(overwrite, exists) == ~((~overwrite) /\ exists)

\* df = load_data()   (module level: read_csv, then the return columns)
BtcLoad ==
  /\ script = "btc-temporal"
  /\ pc = "load"
  /\ \E succeeded \in BOOLEAN :
       LET p == after_load(succeeded, "main")
       IN /\ IF p = "crash" THEN Crash
             ELSE pc' = p /\ UNCHANGED <<exitcode, err>>
          /\ loaded' = succeeded
          /\ stages' = IF succeeded THEN EnterAll(stages, <<"load", "transform">>)
                       ELSE Enter(stages, "load")
  /\ UNCHANGED <<rollVars, heatVars, script, args, runnerVars, out, fs, existing, written, df>>

\* __main__: "if not args.report_only:" taken;
\* export_figures_and_stats: os.makedirs(outdir, exist_ok=True)
BtcExportBegin ==
  /\ script = "btc-temporal"
  /\ pc = "main"
  /\ ~args.report_only
  /\ fs' = fs \cup {"outdir"}
  /\ step' = 1
  /\ pc' = "save_html"
  /\ UNCHANGED <<rollVars, heatVars, script, args, ok, running, started, invoked, exitcode, out,
                 err, existing, written, stages, loaded, df>>

\* __main__: --report-only skips export_figures_and_stats
BtcReportOnly ==
  /\ script = "btc-temporal"
  /\ pc = "main"
  /\ args.report_only
  /\ pc' = "report"
  /\ UNCHANGED <<rollVars, heatVars, script, args, runnerVars, exitcode, out, err, fileVars>>

\* export_figures_and_stats: the step-th "save_html(fig_...(df), path)"
BtcSaveHtml ==
  /\ script = "btc-temporal"
  /\ pc = "save_html"
  /\ LET path == BtcFigureFiles[step]
         before == EnterAll(stages, BtcStagesBefore(step))
     IN IF save_html_writes(args.overwrite, path \in fs)
        THEN \E succeeded \in BOOLEAN :
               /\ stages' = Enter(before, "write")
               /\ IF succeeded
                  THEN /\ fs' = fs \cup {path}
                       /\ written' = written \cup {path}
                       /\ step' = IF step < NumBtcFigures THEN step + 1 ELSE step
                       /\ pc' = IF step < NumBtcFigures THEN "save_html" ELSE "stats"
                       /\ UNCHANGED <<exitcode, err>>
                  ELSE /\ Crash
                       /\ UNCHANGED <<fs, written, step>>
        ELSE /\ stages' = before
             /\ step' = IF step < NumBtcFigures THEN step + 1 ELSE step
             /\ pc' = IF step < NumBtcFigures THEN "save_html" ELSE "stats"
             /\ UNCHANGED <<fs, written, exitcode, err>>
  /\ UNCHANGED <<rollVars, heatVars, script, args, ok, running, started, invoked, out, existing,
                 loaded, df>>

\* export_figures_and_stats: the stats tables, then btc_stats_summary.md
BtcStats ==
  /\ script = "btc-temporal"
  /\ pc = "stats"
  /\ \E succeeded \in BOOLEAN :
       IF succeeded
       THEN /\ stages' = EnterAll(stages, <<"stats", "write">>)
            /\ fs' = fs \cup {"btc_stats_summary.md"}
            /\ written' = written \cup {"btc_stats_summary.md"}
            /\ out' = out \cup {"Exported main figures and stats"}
            /\ pc' = "report"
            /\ UNCHANGED <<exitcode, err>>
       ELSE /\ Crash
            /\ stages' = Enter(stages, "stats")
            /\ UNCHANGED <<fs, written, out>>
  /\ UNCHANGED <<rollVars, heatVars, script, args, runnerVars, existing, loaded, df>>

\* export_report_html: os.makedirs(outdir); open(report_path, "w") ... write
BtcReport ==
  /\ script = "btc-temporal"
  /\ pc = "report"
  /\ stages' = Enter(stages, "write")
  /\ \E succeeded \in BOOLEAN :
       IF succeeded
       THEN /\ fs' = fs \cup {"outdir", "btc_temporal_report.html"}
            /\ written' = written \cup {"btc_temporal_report.html"}
            /\ out' = out \cup {"Wrote single-page report HTML"}
            /\ pc' = "dash"
            /\ UNCHANGED <<exitcode, err>>
       ELSE /\ Crash
            /\ fs' = fs \cup {"outdir"}
            /\ UNCHANGED <<written, out>>
  /\ UNCHANGED <<rollVars, heatVars, script, args, runnerVars, existing, loaded, df>>

\* __main__: "if args.dash_export and DASH_AVAILABLE and app is not None:"
\* with "if hasattr(dash_mod, 'export')" inside a try that catches Exception
BtcDashExport ==
  /\ script = "btc-temporal"
  /\ pc = "dash"
  /\ \E available \in BOOLEAN, has_export \in BOOLEAN, succeeded \in BOOLEAN :
       IF args.dash_export /\ available
       THEN IF has_export
            THEN IF succeeded
                 THEN /\ fs' = fs \cup {"btc_temporal_dashboard.html"}
                      /\ written' = written \cup {"btc_temporal_dashboard.html"}
                      /\ stages' = Enter(stages, "write")
                      /\ out' = out \cup {"Exported full interactive dashboard"}
                 ELSE /\ out' = out \cup {"Dash export unavailable or failed"}
                      /\ UNCHANGED <<fs, written, stages>>
            ELSE /\ out' = out \cup {"Dash export not available in this Dash version."}
                 /\ UNCHANGED <<fs, written, stages>>
       ELSE UNCHANGED <<fs, written, stages, out>>
  /\ pc' = "exited"
  /\ exitcode' = <<0>>
  /\ UNCHANGED <<rollVars, heatVars, script, args, runnerVars, err, existing, loaded, df>>

\* ------------------------------------------------------------ viz_utils.py
\* variant: the PNG path without the figs_dir prefix
png_path_in_cwd == "base_name.png"

\* png_path = figs_path / f"{base_name}.png"
png_path == "figs_dir/base_name.png"

\* html_path = figs_path / f"{base_name}.html"
html_path == "figs_dir/base_name.html"

\* save_dual_output: figs_path.mkdir(parents=True, exist_ok=True)
SaveDualMkdir ==
  /\ script = "save_dual_output"
  /\ pc = "mkdir"
  /\ \E succeeded \in BOOLEAN :
       IF succeeded
       THEN fs' = fs \cup {"figs_dir"} /\ pc' = "savefig" /\ err' = err
       ELSE pc' = "raised" /\ err' = err \cup {"Traceback"} /\ fs' = fs
  /\ UNCHANGED <<rollVars, heatVars, script, args, runnerVars, exitcode, out, existing, written,
                 stages, loaded, df>>

\* save_dual_output: fig.savefig(png_path, ...); print("Saved PNG")
SaveDualPng ==
  /\ script = "save_dual_output"
  /\ pc = "savefig"
  /\ \E succeeded \in BOOLEAN :
       IF succeeded
       THEN /\ fs' = fs \cup {png_path}
            /\ written' = written \cup {png_path}
            /\ out' = out \cup {"Saved PNG"}
            /\ pc' = "html"
            /\ err' = err
       ELSE /\ pc' = "raised"
            /\ err' = err \cup {"Traceback"}
            /\ UNCHANGED <<fs, written, out>>
  /\ UNCHANGED <<rollVars, heatVars, script, args, runnerVars, exitcode, existing, stages, loaded, df>>

\* save_dual_output: try: save_interactive_html(...); print("Saved HTML")
\* except ImportError: print(...)  except Exception as e: print(...)
\* save_interactive_html imports plotly before it opens html_path for writing
SaveDualHtml ==
  /\ script = "save_dual_output"
  /\ pc = "html"
  /\ \E outcome \in {"ok", "ImportError", "Exception"}, opened \in BOOLEAN :
       IF outcome = "ok"
       THEN /\ fs' = fs \cup {html_path}
            /\ written' = written \cup {html_path}
            /\ out' = out \cup {"Saved HTML"}
       ELSE IF outcome = "ImportError"
       THEN /\ out' = out \cup {"Install plotly for HTML output"}
            /\ UNCHANGED <<fs, written>>
       ELSE /\ out' = out \cup {"HTML output failed"}
            /\ fs' = IF opened THEN fs \cup {html_path} ELSE fs
            /\ written' = IF opened THEN written \cup {html_path} ELSE written
  /\ pc' = "returned"
  /\ UNCHANGED <<rollVars, heatVars, script, args, runnerVars, exitcode, err, existing, stages,
                 loaded, df>>

\* ------------------------------------------------------------ 3d-draft.py
\* the five figures main() writes, in order
ThreeDFigureFiles ==
  << "3d_surface_overpayment.html", "interaction_heatmaps.html",
     "user_segment_3d.html", "interaction_matrix.html",
     "3d_interactive_explore.html" >>

NumThreeDFigures == Len(ThreeDFigureFiles)

\* main(): outdir.mkdir(parents=True, exist_ok=True); df = None;
\* "if args.project:"
ThreeDMkdirOut ==
  /\ script = "3d-draft"
  /\ pc = "mkdir"
  /\ fs' = fs \cup {"outdir"}
  /\ df' = "None"
  /\ pc' = IF args.project THEN "read_gbq" ELSE "check_df"
  /\ UNCHANGED <<rollVars, heatVars, script, args, runnerVars, exitcode, out, err, existing,
                 written, stages, loaded>>

\* try: import pandas_gbq; sql = build_joint_sql(...);
\*      df = pandas_gbq.read_gbq(...)
\* except Exception as e: print("BigQuery path failed ... Falling back to CSV mode")
ThreeDReadGbq ==
  /\ script = "3d-draft"
  /\ pc = "read_gbq"
  /\ \E succeeded \in BOOLEAN :
       IF succeeded
       THEN /\ df' = "bigquery"
            /\ out' = out \cup {"Running joint BigQuery aggregation"}
            /\ pc' = "persist"
       ELSE /\ df' = df
            /\ out' = out \cup {"BigQuery path failed. Falling back to CSV mode"}
            /\ pc' = "check_df"
  /\ UNCHANGED <<rollVars, heatVars, script, args, runnerVars, exitcode, err, fs, existing, written,
                 stages, loaded>>

\* (same try) raw_dir.mkdir(...); df.to_csv(joint_csv, index=False);
\* print("Wrote ...")
\* except Exception as e: print("BigQuery path failed ... Falling back to CSV mode")
ThreeDPersist ==
  /\ script = "3d-draft"
  /\ pc = "persist"
  /\ \E succeeded \in BOOLEAN :
       IF succeeded
       THEN /\ fs' = fs \cup {"data/raw", "overpay_joint.csv"}
            /\ written' = written \cup {"overpay_joint.csv"}
            /\ out' = out \cup {"Wrote joint csv"}
       ELSE /\ out' = out \cup {"BigQuery path failed. Falling back to CSV mode"}
            /\ UNCHANGED <<fs, written>>
  /\ pc' = "check_df"
  /\ UNCHANGED <<rollVars, heatVars, script, args, runnerVars, exitcode, err, existing, stages,
                 loaded, df>>

\* "if df is None:" taken: temporal = pd.read_csv(args.temporal_csv);
\* fullness = pd.read_csv(args.fullness_csv); ... df = merged.rename(...)
ThreeDFallbackCsv ==
  /\ script = "3d-draft"
  /\ pc = "check_df"
  /\ df = "None"
  /\ \E succeeded \in BOOLEAN :
       IF succeeded
       THEN /\ df' = "csv"
            /\ pc' = "figures"
            /\ step' = 1
            /\ UNCHANGED <<exitcode, err>>
       ELSE /\ Crash
            /\ UNCHANGED <<df, step>>
  /\ UNCHANGED <<rollVars, heatVars, script, args, ok, running, started, invoked, out, fs, existing,
                 written, stages, loaded>>

\* "if df is None:" not taken: the figures use the df already assigned
ThreeDKeepDf ==
  /\ script = "3d-draft"
  /\ pc = "check_df"
  /\ df # "None"
  /\ pc' = "figures"
  /\ step' = 1
  /\ UNCHANGED <<rollVars, heatVars, script, args, ok, running, started, invoked, exitcode, out,
                 err, fileVars>>

\* fig = create_...(df); fig.write_html(outdir / <step-th file>)
ThreeDFigure ==
  /\ script = "3d-draft"
  /\ pc = "figures"
  /\ \E succeeded \in BOOLEAN :
       IF succeeded
       THEN /\ fs' = fs \cup {ThreeDFigureFiles[step]}
            /\ written' = written \cup {ThreeDFigureFiles[step]}
            /\ step' = IF step < NumThreeDFigures THEN step + 1 ELSE step
            /\ pc' = IF step < NumThreeDFigures THEN "figures" ELSE "analyses"
            /\ UNCHANGED <<exitcode, err>>
       ELSE /\ Crash
            /\ UNCHANGED <<fs, written, step>>
  /\ UNCHANGED <<rollVars, heatVars, script, args, ok, running, started, invoked, out, existing,
                 stages, loaded, df>>

\* analyze_interaction_effects(df); calculate_synergy_score(df); print(...)
ThreeDAnalyses ==
  /\ script = "3d-draft"
  /\ pc = "analyses"
  /\ \E succeeded \in BOOLEAN :
       IF succeeded
       THEN /\ out' = out \cup {"3D Analysis complete!"}
            /\ pc' = "exited"
            /\ exitcode' = <<0>>
            /\ err' = err
       ELSE /\ Crash
            /\ out' = out
  /\ UNCHANGED <<rollVars, heatVars, script, args, runnerVars, fileVars>>

\* ------------- rolling_monday_difference.py and btc_weekly_lead.py
RollingScripts == {"rolling_monday_difference", "btc_weekly_lead"}

\* rolling_diff emits a row "if len(mon) >= 8 and len(oth) >= 40"
MinMon == 8

MinOth == 40

\* df["date"].dt.dayofweek (0 = Monday), dates counted in days from a Monday
dow_num(d) == d % 7

\* variant: the left bound moved past rows dated exactly start_date
RECURSIVE AdvanceLeftInclusive(_, _, _, _)
AdvanceLeftInclusive(a, l, r, start_date) ==
  IF l < r /\ a[l] <= start_date
  THEN AdvanceLeftInclusive(a, l + 1, r, start_date)
  ELSE l

\* "while left < right and arr[left, 0] < start_date: left += 1"
RECURSIVE AdvanceLeft(_, _, _, _)
AdvanceLeft(a, l, r, start_date) ==
  IF l < r /\ a[l] < start_date
  THEN AdvanceLeft(a, l + 1, r, start_date)
  ELSE l

\* one iteration of "for right in range(len(arr)):" in rolling_diff and in
\* rolling_monday_tstat (indices count from 1 here)
RollingStep ==
  /\ script \in RollingScripts
  /\ pc = "loop"
  /\ right < Len(arr)
  /\ right' = right + 1
  /\ LET end_date == arr[right']
         start_date == end_date - window_days
     IN /\ left' = AdvanceLeft(arr, left, right', start_date)
        /\ window' = left'..right'
        /\ LET mon == {i \in window' : dow_num(arr[i]) = 0}
               oth == {i \in window' : dow_num(arr[i]) # 0}
           IN emitted' = IF Cardinality(mon) >= MinMon /\ Cardinality(oth) >= MinOth
                         THEN Append(emitted, end_date)
                         ELSE emitted
  /\ UNCHANGED <<arr, window_days, heatVars, script, args, pc, runnerVars, exitcode, out,
                 err, fileVars>>

\* the loop is over: "return pd.DataFrame(out)"
RollingReturn ==
  /\ script \in RollingScripts
  /\ pc = "loop"
  /\ right = Len(arr)
  /\ pc' = "returned"
  /\ UNCHANGED <<rollVars, heatVars, script, args, runnerVars, exitcode, out, err, fileVars>>

\* ------- btc_weekly_lead.py (weekend_vs_overnight) and
\* ------- visualize_weekend_gap_analysis.py (calculate_gaps, main)
GapScripts == {"weekend_vs_overnight", "visualize_weekend_gap_analysis"}

\* "d0['date'].weekday() == 4 and d1['date'].weekday() == 0" for the rows
\* d0, d1 at positions i, i+1; in main() of visualize_weekend_gap_analysis
\* "(df['dow'] == 4) & (df['next_dow'] == 0)" with next_dow = dow.shift(-1)
is_weekend_gap(d0, d1) == dow_num(d0) = 4 /\ dow_num(d1) = 0

\* main() of visualize_weekend_gap_analysis: "if len(df) == 0:
\* print('Error: No data to visualize!'); return 1"
GapNoData ==
  /\ script = "visualize_weekend_gap_analysis"
  /\ pc = "loop"
  /\ Len(arr) = 0
  /\ out' = out \cup {"Error: No data to visualize!"}
  /\ exitcode' = <<1>>
  /\ pc' = "exited"
  /\ UNCHANGED <<rollVars, heatVars, script, args, runnerVars, err, fileVars>>

\* weekend_vs_overnight: one iteration of "for i in range(len(df) - 1):",
\* r = log(d1.open / d0.close) of the adjacent rows d0 = df.iloc[i],
\* d1 = df.iloc[i+1]; calculate_gaps: the row i of the shifted frame, gap_pct
\* from close of row i and open of row i+1 (the last row is dropped).
\* An emitted entry names the rows its return is computed from.
GapStep ==
  /\ script \in GapScripts
  /\ pc = "loop"
  /\ right + 1 < Len(arr)
  /\ right' = right + 1
  /\ LET d0 == arr[right']
         d1 == arr[right' + 1]
     IN emitted' = Append(emitted,
          [date |-> IF script = "weekend_vs_overnight" THEN d1 ELSE d0,
           type |-> IF is_weekend_gap(d0, d1) THEN "Weekend gap"
                    ELSE "Weekday overnight",
           close_row |-> right',
           open_row |-> right' + 1])
  /\ UNCHANGED <<arr, window_days, left, window, heatVars, script, args, pc, runnerVars,
                 exitcode, out, err, fileVars>>

\* the loop is over: "return pd.DataFrame(rows)" / "return df"
GapReturn ==
  /\ script \in GapScripts
  /\ pc = "loop"
  /\ right + 1 >= Len(arr)
  /\ ~(script = "visualize_weekend_gap_analysis" /\ Len(arr) = 0)
  /\ pc' = "returned"
  /\ UNCHANGED <<rollVars, heatVars, script, args, runnerVars, exitcode, out, err, fileVars>>

\* ------------------------- mempool_heatmap.py: build_hour_day_heatmap
\* order = ["Monday", ..., "Sunday"]
order ==
  << "Monday", "Tuesday", "Wednesday", "Thursday", "Friday", "Saturday",
     "Sunday" >>

\* the day names in the order pivot_table sorts its index (alphabetical)
SortedDayNames ==
  << "Friday", "Monday", "Saturday", "Sunday", "Thursday", "Tuesday",
     "Wednesday" >>

\* the hours of a day in the order pivot_table sorts its columns
SortedHours == [h \in 1..24 |-> h - 1]

\* .dt.day_name() and .dt.hour of a local time counted in hours from a
\* Monday 00:00
day_name(t) == order[((t \div 24) % 7) + 1]

hour(t) == t % 24

\* local["local_ts"] = local["ts"].dt.tz_convert(to_tz);
\* local["day_name"] = ...dt.day_name(); local["hour"] = ...dt.hour
HeatLocalize ==
  /\ script = "build_hour_day_heatmap"
  /\ pc = "localize"
  /\ local' = [i \in 1..Len(ts) |->
                 [day_name |-> day_name(ts[i] + tz_shift),
                  hour |-> hour(ts[i] + tz_shift)]]
  /\ pc' = "pivot_table"
  /\ UNCHANGED <<ts, tz_shift, pivot, rollVars, script, args, runnerVars,
                 exitcode, out, err, fileVars>>

\* pivot = local.pivot_table(values="mempool_mb", index="day_name",
\*                           columns="hour", aggfunc="mean"):
\* one row per day name and one column per hour that occur in the data
HeatPivotTable ==
  /\ script = "build_hour_day_heatmap"
  /\ pc = "pivot_table"
  /\ LET Rows == 1..Len(local)
         DayOccurs(d) == \E i \in Rows : local[i].day_name = d
         HourOccurs(h) == \E i \in Rows : local[i].hour = h
     IN pivot' = [index |-> SelectSeq(SortedDayNames, DayOccurs),
                  columns |-> SelectSeq(SortedHours, HourOccurs),
                  cells |-> {<<local[i].day_name, local[i].hour>> : i \in Rows}]
  /\ pc' = "reindex"
  /\ UNCHANGED <<ts, tz_shift, local, rollVars, script, args, runnerVars,
                 exitcode, out, err, fileVars>>

\* pivot = pivot.reindex(order): the rows become Monday..Sunday, a day that
\* was not in the index gets a row without values
HeatReindex ==
  /\ script = "build_hour_day_heatmap"
  /\ pc = "reindex"
  /\ pivot' = [index |-> order,
               columns |-> pivot.columns,
               cells |-> {c \in pivot.cells : \E k \in 1..Len(order) : order[k] = c[1]}]
  /\ pc' = "fill"
  /\ UNCHANGED <<ts, tz_shift, local, rollVars, script, args, runnerVars,
                 exitcode, out, err, fileVars>>

\* pivot = pivot.interpolate(axis=1).bfill(axis=1).ffill(axis=1); return pivot:
\* a row that has a value gets one in every column, the labels stay
HeatFillReturn ==
  /\ script = "build_hour_day_heatmap"
  /\ pc = "fill"
  /\ pivot' = [index |-> pivot.index,
               columns |-> pivot.columns,
               cells |-> {<<pivot.index[k], pivot.columns[j]>> :
                            k \in {r \in 1..Len(pivot.index) :
                                     \E c \in pivot.cells : c[1] = pivot.index[r]},
                            j \in 1..Len(pivot.columns)}]
  /\ pc' = "returned"
  /\ UNCHANGED <<ts, tz_shift, local, rollVars, script, args, runnerVars,
                 exitcode, out, err, fileVars>>

\* ------------------------------------------------------------------ Init
InitRunAll ==
  /\ script = "run_all_visualizations"
  /\ \E vo \in BOOLEAN, pr \in BOOLEAN :
       /\ args = [DefaultArgs EXCEPT !.visualize_only = vo, !.project = pr]
       /\ step = NextStep(0, vo)
  /\ pc = "call"
  /\ fs = {}
  /\ existing = {}

InitPipeline ==
  /\ script = "run_large_transaction_timing_pipeline"
  /\ args = [DefaultArgs EXCEPT !.project = TRUE]
  /\ step = 1
  /\ pc = "call"
  /\ fs = {}
  /\ existing = {}

InitRunQuery ==
  /\ script = "run_query"
  /\ args = [DefaultArgs EXCEPT !.project = TRUE]
  /\ step = 0
  /\ pc = "read_sql"
  /\ fs = {}
  /\ existing = {}

InitMempool ==
  /\ script = "mempool_heatmap"
  /\ \E src \in {"blockchain", "csv"}, c \in BOOLEAN :
       args = [DefaultArgs EXCEPT !.source = src, !.csv = c]
  /\ step = 0
  /\ pc = "load"
  /\ fs = {}
  /\ existing = {}

InitBtcTemporal ==
  /\ script = "btc-temporal"
  /\ \E ow \in BOOLEAN, ro \in BOOLEAN, de \in BOOLEAN :
       args = [DefaultArgs EXCEPT !.overwrite = ow, !.report_only = ro,
                                  !.dash_export = de]
  /\ step = 0
  /\ pc = "load"
  /\ \E old \in SUBSET BtcHtmlFiles :
       /\ Cardinality(old) <= MaxExisting
       /\ existing = IF old = {} THEN {} ELSE old \cup {"outdir"}
  /\ fs = existing

\* a call save_dual_output(fig, "base_name", "figs_dir"); the directory and
\* earlier outputs may or may not exist
InitSaveDual ==
  /\ script = "save_dual_output"
  /\ args = DefaultArgs
  /\ step = 0
  /\ pc = "mkdir"
  /\ existing \in {{}, {"figs_dir"}, {"figs_dir", png_path},
                   {"figs_dir", html_path}, {"figs_dir", png_path, html_path}}
  /\ fs = existing

InitThreeD ==
  /\ script = "3d-draft"
  /\ \E pr \in BOOLEAN : args = [DefaultArgs EXCEPT !.project = pr]
  /\ step = 0
  /\ pc = "mkdir"
  /\ existing = {}
  /\ fs = {}

\* rolling_diff(df, window_days) / rolling_monday_tstat(df, window_days) on
\* a frame sorted by date; "left = 0" before the loop
InitRolling ==
  /\ script \in RollingScripts
  /\ args = DefaultArgs
  /\ step = 0
  /\ pc = "loop"
  /\ existing = {}
  /\ fs = {}

\* weekend_vs_overnight(df) / calculate_gaps(df) on a frame sorted by date
InitGap ==
  /\ script \in GapScripts
  /\ args = DefaultArgs
  /\ step = 0
  /\ pc = "loop"
  /\ existing = {}
  /\ fs = {}

\* build_hour_day_heatmap(df, tz_name) on the non-empty hourly series that
\* read_csv_series / fetch_blockchain_com_1y_hourly return (resample("1H"))
InitHeat ==
  /\ script = "build_hour_day_heatmap"
  /\ args = DefaultArgs
  /\ step = 0
  /\ pc = "localize"
  /\ existing = {}
  /\ fs = {}

EmptyPivot == [index |-> <<>>, columns |-> <<>>, cells |-> {}]

Init ==
  /\ ok = TRUE
  /\ running = {}
  /\ started = <<>>
  /\ invoked = <<>>
  /\ exitcode = <<>>
  /\ out = {}
  /\ err = {}
  /\ written = {}
  /\ stages = <<>>
  /\ loaded = FALSE
  /\ df = "None"
  /\ \/ InitRunAll
     \/ InitPipeline
     \/ InitRunQuery
     \/ InitMempool
     \/ InitBtcTemporal
     \/ InitSaveDual
     \/ InitThreeD
     \/ InitRolling
     \/ InitGap
     \/ InitHeat
  /\ IF script = "build_hour_day_heatmap"
     THEN /\ \E start \in 0..MaxStartHour, n \in 1..MaxSeriesHours :
               ts = [i \in 1..n |-> start + i - 1]
          /\ tz_shift \in 0..MaxTzShift
     ELSE ts = <<>> /\ tz_shift = 0
  /\ local = <<>>
  /\ pivot = EmptyPivot
  /\ IF script \in RollingScripts
     THEN arr \in SortedDates /\ window_days \in 1..MaxWindowDays
     ELSE IF script \in GapScripts
     THEN arr \in GapDates /\ window_days = 0
     ELSE arr = <<>> /\ window_days = 0
  /\ left = 1
  /\ right = 0
  /\ window = {}
  /\ emitted = <<>>

Next ==
  \/ RunAllCall
  \/ RunAllChildExit
  \/ RunAllReturn
  \/ PipelineCall
  \/ PipelineChildExit
  \/ PipelineReturn
  \/ RunQueryReadSql
  \/ RunQueryReadGbq
  \/ RunQueryWrite
  \/ MempoolMissingCsv
  \/ MempoolLoad
  \/ MempoolSaveRaw
  \/ MempoolBuildPivot
  \/ MempoolPlotPng
  \/ MempoolPlotHtml
  \/ BtcLoad
  \/ BtcExportBegin
  \/ BtcReportOnly
  \/ BtcSaveHtml
  \/ BtcStats
  \/ BtcReport
  \/ BtcDashExport
  \/ SaveDualMkdir
  \/ SaveDualPng
  \/ SaveDualHtml
  \/ ThreeDMkdirOut
  \/ ThreeDReadGbq
  \/ ThreeDPersist
  \/ ThreeDFallbackCsv
  \/ ThreeDKeepDf
  \/ ThreeDFigure
  \/ ThreeDAnalyses
  \/ RollingStep
  \/ RollingReturn
  \/ GapNoData
  \/ GapStep
  \/ GapReturn
  \/ HeatLocalize
  \/ HeatPivotTable
  \/ HeatReindex
  \/ HeatFillReturn

Spec == Init /\ [][Next]_vars

\* ================================================================ claims
IsExited(n) == pc = "exited" /\ exitcode = <<n>>

InvokedNames == [i \in 1..Len(invoked) |-> invoked[i].name]

\* the scripts whose stages are traced
PipelineScripts == {"run_query", "btc-temporal", "mempool_heatmap"}

VisualizeScripts ==
  << "visualize_large_transaction_timing", "visualize_block_time_variance",
     "visualize_weekend_gap_analysis", "visualize_fee_overpayment_patterns" >>

\* the stage order C1 states
StageRank ==
  [load |-> 1, transform |-> 2, stats |-> 3, plot |-> 4, write |-> 5]

IsPrefix(s, t) == Len(s) <= Len(t) /\ \A i \in 1..Len(s) : s[i] = t[i]

\* C1 as stated: in every traced script the stages are entered in the fixed
\* order load, transform, stats, plot, write, none of them twice, and no
\* write happens before the load has succeeded.
C1_LinearPipeline ==
  script \in PipelineScripts =>
    /\ \A i \in 1..(Len(stages) - 1) :
         StageRank[stages[i]] < StageRank[stages[i + 1]]
    /\ (written # {} => loaded)

\* C1 amended: in run_query, btc-temporal and mempool_heatmap the load stage
\* comes first and is entered once, and nothing is written (no write stage
\* is entered) before the load has succeeded; the stages after the load may
\* interleave.
C1_LoadFirstThenWrites ==
  script \in PipelineScripts =>
    /\ (stages # <<>> => stages[1] = "load")
    /\ \A i \in 2..Len(stages) : stages[i] # "load"
    /\ ((\E i \in 1..Len(stages) : stages[i] = "write") => loaded)
    /\ (written # {} => loaded)

\* C1 witness: mempool_heatmap finished, having written the raw CSV before
\* it transformed and plotted.
C1_Witness ==
  /\ script = "mempool_heatmap"
  /\ IsExited(0)
  /\ loaded
  /\ stages = <<"load", "write", "transform", "plot", "write", "plot", "write">>
  /\ written = MempoolFiles

\* C2: in both runners at most one child script runs at any time, and a
\* child is started only when every earlier child has terminated.
C2_OneChildAtATime ==
  /\ Cardinality(running) <= 1
  /\ (pc = "call" => running = {})
  /\ Len(started) = Len(invoked) + Cardinality(running)

\* C2 witness: run_all_visualizations runs a later child after two earlier
\* ones have terminated.
C2_Witness ==
  /\ script = "run_all_visualizations"
  /\ Len(invoked) >= 2
  /\ running # {}

\* C3: run_all_visualizations exits 0, printing DONE, exactly when every
\* step it invoked returned 0, and exits 1 when some step returned non-zero.
C3_ExitZeroIffAllStepsOk ==
  (script = "run_all_visualizations" /\ pc = "exited") =>
    /\ exitcode \in {<<0>>, <<1>>}
    /\ (exitcode = <<0>>) <=> (\A i \in 1..Len(invoked) : invoked[i].rc = 0)
    /\ (exitcode = <<0>>) <=> ("DONE" \in out)
    /\ (\E i \in 1..Len(invoked) : invoked[i].rc # 0) => exitcode = <<1>>

\* C3 witness: a run whose first step failed and whose last step succeeded
\* has exited with status 1.
C3_Witness ==
  /\ script = "run_all_visualizations"
  /\ IsExited(1)
  /\ invoked[1].rc # 0
  /\ invoked[Len(invoked)].rc = 0

\* C4: in the pipeline runner, once the pull step has returned non-zero the
\* visualize step is never started and the run has exited with status 1.
C4_PullFailureStopsPipeline ==
  (/\ script = "run_large_transaction_timing_pipeline"
   /\ Len(invoked) >= 1
   /\ invoked[1].name = "pull_large_transaction_timing"
   /\ invoked[1].rc # 0) =>
    /\ started = <<"pull_large_transaction_timing">>
    /\ running = {}
    /\ IsExited(1)

\* C4 witness: the pull step of the pipeline runner has returned non-zero.
C4_Witness ==
  /\ script = "run_large_transaction_timing_pipeline"
  /\ Len(invoked) = 1
  /\ invoked[1].rc # 0
  /\ pc = "exited"

\* C5: with --visualize_only run_all_visualizations starts no pull script; it
\* starts the four visualize scripts in their order, each once, and has
\* started and finished all four when it exits.
C5_VisualizeOnlyRunsFourVisuals ==
  (script = "run_all_visualizations" /\ args.visualize_only) =>
    /\ IsPrefix(started, VisualizeScripts)
    /\ (pc = "exited" => started = VisualizeScripts /\ InvokedNames = VisualizeScripts)

\* C5 witness: a --visualize_only run has exited.
C5_Witness ==
  /\ script = "run_all_visualizations"
  /\ args.visualize_only
  /\ pc = "exited"
  /\ Len(invoked) = 4

\* C6 as stated: after save_dual_output returns, the directory, the PNG and
\* the HTML all exist.
C6_BothFilesExist ==
  (script = "save_dual_output" /\ pc = "returned") =>
    {"figs_dir", "figs_dir/base_name.png", "figs_dir/base_name.html"} \subseteq fs

\* C6 amended: after save_dual_output returns, the directory exists and the
\* PNG has been written there; the HTML has been written too when "Saved
\* HTML" was printed, and whenever the HTML does not exist a warning was
\* printed instead (plotly not importable, or writing the HTML failed).
C6_PngAlwaysHtmlUnlessWarned ==
  (script = "save_dual_output" /\ pc = "returned") =>
    /\ {"figs_dir", "figs_dir/base_name.png"} \subseteq fs
    /\ "figs_dir/base_name.png" \in written
    /\ "Saved PNG" \in out
    /\ ("Saved HTML" \in out => "figs_dir/base_name.html" \in (fs \cap written))
    /\ ("figs_dir/base_name.html" \notin fs =>
          out \cap {"Install plotly for HTML output", "HTML output failed"} # {})

\* C6 witness: save_dual_output returned in a directory it had to create,
\* with plotly missing: the PNG is there, the HTML is not.
C6_Witness ==
  /\ script = "save_dual_output"
  /\ pc = "returned"
  /\ existing = {}
  /\ "figs_dir/base_name.png" \in fs
  /\ "figs_dir/base_name.html" \notin fs
  /\ "Install plotly for HTML output" \in out

\* C7 as stated: whenever the BigQuery path of 3d-draft has raised, the
\* figures are built from the fallback CSVs.
C7_FallbackOnAnyException ==
  (/\ script = "3d-draft"
   /\ "BigQuery path failed. Falling back to CSV mode" \in out
   /\ pc \in {"figures", "analyses"}) =>
    df = "csv"

\* C8: mempool_heatmap with --source csv and no --csv writes none of its
\* files, and its only step prints the error to stderr and exits with 2.
C8_MissingCsvExitsTwo ==
  (script = "mempool_heatmap" /\ args.source = "csv" /\ ~args.csv) =>
    /\ written = {}
    /\ fs \cap MempoolFiles = {}
    /\ pc \in {"load", "exited"}
    /\ (pc = "exited" =>
          /\ exitcode = <<2>>
          /\ err = {"Error: --csv is required when --source=csv"})

\* C8 witness: such a run has exited.
C8_Witness ==
  /\ script = "mempool_heatmap"
  /\ args.source = "csv"
  /\ ~args.csv
  /\ IsExited(2)

C10_WindowIsCalendarInterval ==
  (script \in RollingScripts /\ right >= 1) =>
    window = {i \in 1..Len(arr) :
                arr[right] - window_days <= arr[i] /\ arr[i] <= arr[right]}

\* C10 amended: after every iteration the window holds exactly the rows at
\* or before the current row whose date lies in
\* [end_date - window_days, end_date]; rows after the current row that carry
\* its date are not in the window.
C10_WindowIsIntervalUpToCurrentRow ==
  (script \in RollingScripts /\ right >= 1) =>
    /\ window = {i \in 1..right :
                   arr[right] - window_days <= arr[i] /\ arr[i] <= arr[right]}
    /\ window = left..right

\* C10 witness: the window has dropped an old row, keeps a row dated exactly
\* end_date - window_days, and the next row carries the current date.
C10_Witness ==
  /\ script \in RollingScripts
  /\ right >= 2
  /\ right < Len(arr)
  /\ left > 1
  /\ arr[left] = arr[right] - window_days
  /\ arr[right + 1] = arr[right]

\* C11 as stated, on a frame that holds one row for every calendar day:
\* when the loop has returned, every Friday row whose following Monday
\* (three days later) is in the data has exactly one 'Weekend gap' entry,
\* computed from that Friday's close and that Monday's open.
C11_WeekendGapForEveryFriday ==
  (/\ script \in GapScripts
   /\ pc = "returned"
   /\ \A i \in 1..(Len(arr) - 1) : arr[i + 1] = arr[i] + 1) =>
    \A i \in 1..Len(arr) :
      (dow_num(arr[i]) = 4 /\ \E j \in 1..Len(arr) : arr[j] = arr[i] + 3) =>
        Cardinality({k \in 1..Len(emitted) :
                       /\ emitted[k].type = "Weekend gap"
                       /\ emitted[k].close_row = i
                       /\ arr[emitted[k].open_row] = arr[i] + 3}) = 1

\* C12 as stated: the table build_hour_day_heatmap returns for a non-empty
\* series has the rows Monday..Sunday in that order and the columns 0..23,
\* so that its j-th column is hour j.
C12_RowsMonToSunColumnsAllHours ==
  (script = "build_hour_day_heatmap" /\ pc = "returned") =>
    /\ pivot.index = order
    /\ pivot.columns = [j \in 1..24 |-> j - 1]

====
